---- MODULE Spec2Model ----
(***************************************************************************)
(* Model of the Necromoire UDP bridge: the asyncio variant                 *)
(* (NecromoireMKiTest_Enhanced.py: UDPHandler, InputBuffer, DBNEngine) and *)
(* the threaded variant (NecromoireMKiTest.py: udp_listener,               *)
(* buffer_processor, route_to_DBN, DBN).                                   *)
(*                                                                         *)
(* Text is a sequence of one-character strings.  Time is counted in ticks; *)
(* a sleeping task holds the number of ticks left, and time does not pass  *)
(* a sleep that is due.                                                    *)
(***************************************************************************)
EXTENDS Integers, Sequences, FiniteSets, TLC

----------------------------------------------------------------------------
(* Configuration (class Config) and the bounds of the model.               *)

\* Config.num_ranks, Config.rank_size: the literals 8 and 4 of SystemState.
num_ranks == 8
rank_size == 4

\* Config.buffer_time_ms and Config.input_timeout_ms are configurable; the
\* model counts them in ticks and keeps them small.
buffer_time_ms == 2
input_timeout_ms == 3

\* Number of process_input calls explored by the engine-only specification.
MaxCalls == 3
\* Number of datagrams the listener receives in the asyncio specification.
MaxDatagrams == 3
\* Number of datagrams received in the specification with fairness.
MaxLiveDatagrams == 2
\* Number of outstanding _timeout_incomplete_input tasks per sender.
MaxTimers == 2
\* Number of inputs the threaded listener appends.
MaxAppends == 3
\* Longest address given to the encoder.
MaxAddrLen == 8

----------------------------------------------------------------------------
(* Characters and hexadecimal parsing: int(char, 16).                      *)

HexUpper == <<"0","1","2","3","4","5","6","7","8","9","A","B","C","D","E","F">>
HexLower == <<"0","1","2","3","4","5","6","7","8","9","a","b","c","d","e","f">>

IsHex(c) == \E i \in 1..16 : HexUpper[i] = c \/ HexLower[i] = c

\* int(c, 16) for a character that is a hexadecimal digit.
HexVal(c) == (CHOOSE i \in 1..16 : HexUpper[i] = c \/ HexLower[i] = c) - 1

Rep(c, n) == [i \in 1..n |-> c]

SetAt(s, p, c) == [i \in 1..Len(s) |-> IF i = p THEN c ELSE s[i]]

Min(S) == CHOOSE x \in S : \A y \in S : x <= y

----------------------------------------------------------------------------
(* SystemState                                                             *)

ZeroRank == Rep(0, rank_size)

\* SystemState(): the dataclass defaults.
InitialState ==
    [sustain |-> 0, density_function |-> 0, key_center |-> 0,
     ranks |-> Rep(ZeroRank, num_ranks)]

expected_length == 3 + (num_ranks * rank_size)

\* 1-based position of the first character int(char, 16) rejects, or
\* Len(hex) + 1 when every character parses.
FirstBad(hex) == Min({p \in 1..Len(hex) : ~IsHex(hex[p])} \cup {Len(hex) + 1})

\* Characters of rank i (1-based): combined_hex[start_idx:end_idx].
RankHex(hex, i) == SubSeq(hex, 3 + (i - 1) * rank_size + 1, 3 + i * rank_size)

ParseRank(hex, i) == [k \in 1..rank_size |-> HexVal(RankHex(hex, i)[k])]

\* A plausible slip: the length check is missing (slices past the end are
\* short, as in Python), so a short input overwrites what it covers.
UpdateNoLengthCheck(st, hex) ==
    LET fb == FirstBad(hex)
        n  == Len(hex)
    IN  [ok |-> fb > n /\ n >= 3,
         state |->
            [sustain |-> IF fb > 1 /\ n >= 1 THEN HexVal(hex[1]) ELSE st.sustain,
             density_function |->
                IF fb > 2 /\ n >= 2 THEN HexVal(hex[2]) ELSE st.density_function,
             key_center |->
                IF fb > 3 /\ n >= 3 THEN HexVal(hex[3]) ELSE st.key_center,
             ranks |-> [i \in 1..num_ranks |->
                IF n >= 3 + i * rank_size /\ fb > 3 + i * rank_size
                THEN ParseRank(hex, i) ELSE st.ranks[i]]]]

\* SystemState.update_from_combined_input.  The length is checked first and
\* raises before anything is stored.  After that the fields are stored one
\* at a time, left to right, each right after its characters are parsed:
\* int() raises at the first bad character, so every field whose characters
\* all lie before it has already been overwritten (a rank is stored only
\* when all 4 of its characters parse).  ok is FALSE when the call raises.
UpdateFromCombinedInput(st, hex) ==
    IF Len(hex) # expected_length
    THEN [ok |-> FALSE, state |-> st]
    ELSE LET fb == FirstBad(hex)
         IN  [ok |-> fb > Len(hex),
              state |->
                 [sustain |-> IF fb > 1 THEN HexVal(hex[1]) ELSE st.sustain,
                  density_function |->
                     IF fb > 2 THEN HexVal(hex[2]) ELSE st.density_function,
                  key_center |->
                     IF fb > 3 THEN HexVal(hex[3]) ELSE st.key_center,
                  ranks |-> [i \in 1..num_ranks |->
                     IF fb > 3 + i * rank_size
                     THEN ParseRank(hex, i) ELSE st.ranks[i]]]]

\* SystemState.copy: a new state with the same field values.
CopyState(st) ==
    [sustain |-> st.sustain, density_function |-> st.density_function,
     key_center |-> st.key_center,
     ranks |-> [i \in 1..num_ranks |-> [k \in 1..rank_size |-> st.ranks[i][k]]]]

\* A plausible slip: the copy is made with ranks=self.ranks, so the snapshot
\* holds the list the original goes on writing to.
SnapshotSharingRanks(snapshot, updated) == [snapshot EXCEPT !.ranks = updated.ranks]

\* What a snapshot made by copy() holds once the original has been updated:
\* what it held before.  copy() builds a new outer list of new inner lists
\* (rank.copy()), and the update rebinds self.ranks[i] in the original, so
\* no write to the original reaches the snapshot.
SnapshotAfterUpdate(snapshot, updated) == snapshot

----------------------------------------------------------------------------
(* DBNEngine: classification, routing, messages.                           *)

RECURSIVE ScanRanks(_, _, _)
\* The for loop of _check_bypass_rank from 0-based index i on.
ScanRanks(cur, prev, i) ==
    IF i >= num_ranks THEN 0
    ELSE IF cur.ranks[i + 1] # prev.ranks[i + 1] THEN i + 1
    ELSE ScanRanks(cur, prev, i + 1)

\* A plausible slip: ranks are compared by their first value only.
CheckFirstNibbleOnly(cur, prev) ==
    IF \E i \in 1..num_ranks : cur.ranks[i][1] # prev.ranks[i][1]
    THEN Min({i \in 1..num_ranks : cur.ranks[i][1] # prev.ranks[i][1]})
    ELSE 0

\* DBNEngine._check_bypass_rank
CheckBypassRank(cur, prev) == ScanRanks(cur, prev, 0)

\* The branch _run_dbn_algorithm takes for a classification index.
RunDbnPath(bypass_rank) ==
    IF bypass_rank = 0 THEN "send_current_values"
    ELSE IF bypass_rank < 7 THEN "execute_full_dbn"
    ELSE "substitute_rank"

\* A plausible slip: the two messages in the other order.
SendKeyCenterFirst(st) ==
    << [address |-> "/keyCenter", data |-> st.key_center],
       [address |-> "/sustain", data |-> st.sustain] >>

\* DBNEngine._send_current_values
SendCurrentValues(st) ==
    << [address |-> "/sustain", data |-> st.sustain],
       [address |-> "/keyCenter", data |-> st.key_center] >>

\* _execute_full_dbn and _substitute_rank: placeholders that return
\* _send_current_values().
ExecuteFullDbn(st) == SendCurrentValues(st)
SubstituteRank(st, rank_index) == SendCurrentValues(st)

\* DBNEngine._run_dbn_algorithm: the messages to send.
RunDbnAlgorithm(cur, prev) ==
    LET bypass_rank == CheckBypassRank(cur, prev)
        path == RunDbnPath(bypass_rank)
    IN  IF path = "send_current_values" THEN SendCurrentValues(cur)
        ELSE IF path = "execute_full_dbn" THEN ExecuteFullDbn(cur)
        ELSE SubstituteRank(cur, bypass_rank)

----------------------------------------------------------------------------
(* Inputs of the model.                                                    *)

\* A 35-character input: head (3 characters), all ranks "0000" except rank
\* r (1..8), which has a "1" at a position that depends on r; r = 0 leaves
\* every rank "0000".
MkInput(head, r) ==
    head \o [p \in 1..(num_ranks * rank_size) |->
                IF r > 0 /\ p = (r - 1) * rank_size + ((r - 1) % rank_size) + 1
                THEN "1" ELSE "0"]

Heads == { <<"0","0","0">>, <<"a","1","F">> }

ValidInputs == { MkInput(h, r) : h \in Heads, r \in {0, 1, 6, 7, 8} }

BaseInput == MkInput(<<"a","1","F">>, 8)

WrongLengthInputs ==
    { <<>>, <<"0","1">>, SubSeq(BaseInput, 1, expected_length - 1),
      BaseInput \o <<"0">> }

BadDigitInputs == { SetAt(BaseInput, p, "G") : p \in {1, 3, 4, 20, 35} }

EngineInputs == ValidInputs \cup WrongLengthInputs \cup BadDigitInputs

IsAccepted(hex) == Len(hex) = expected_length /\ FirstBad(hex) > Len(hex)

----------------------------------------------------------------------------
VARIABLES
    \* DBNEngine
    current_state,      \* DBNEngine.current_state
    previous_state,     \* DBNEngine.previous_state
    outbox,             \* messages of the running process_input not yet sent
    sent,               \* everything handed to sock_sendto, in order
    \* what the last process_input call saw and did (history)
    calls,              \* number of process_input calls begun
    call,               \* [input, current, previous, nsent, ok, bypass, path]
    processed,          \* the inputs process_input was called with, in order
    \* UDPHandler
    pending_inputs,     \* sender -> InputState, or NoEntry
    timers,             \* sender -> ticks left of each _timeout_incomplete_input
    handler,            \* the listener task: receiving, or waiting for the lock
    received,           \* number of datagrams received
    emitted,            \* combined inputs handed to message_processor, in order
    pair,               \* sender -> the /uin1 a following /uin2 should complete
    timeouts,           \* sender -> number of entries a time-out deleted
    entry_age,          \* sender -> ticks since its pending entry was created
    removed_age,        \* sender -> age of the entry a time-out deleted last
    entry_flags,        \* sender -> the flags its pending entry has recorded
    expired,            \* sender -> the halves of its last timed-out entry
                        \*   that its pending entry still holds
    \* InputBuffer
    buffer,             \* InputBuffer.buffer (the 'data' of each entry)
    buffer_event,       \* InputBuffer.buffer_event
    buffer_lock,        \* InputBuffer.buffer_lock: "free" or its holder
    pb,                 \* the process_buffer task: [pc, left]
    win,                \* the open window: ticks since its first push, pushes
    burst,              \* the chain of pushes each < buffer_time_ms apart
    delivery,           \* the last flush: item, item expected, window age
    spacing,            \* ticks since the last delivery, and between the last two
    \* threaded variant
    input_buffer,       \* input_buffer
    t_lock,             \* buffer_lock: "free" or its holder
    t_proc,             \* the buffer_processor thread: pc and local last_input
    t_slots,            \* sustain, densityFunction, keyCenter, ranks: [cur, next]
    message_queue,      \* message_queue
    t_sent,             \* messages the sender thread has sent
    appended,           \* number of inputs the listener appended
    \* pure functions under test
    fn                  \* arguments and result of the function applied

engineVars == <<current_state, previous_state, outbox, sent, calls, call, processed>>
udpVars == <<pending_inputs, timers, handler, received, emitted, pair, timeouts,
             entry_age, removed_age, entry_flags, expired>>
bufferVars == <<buffer, buffer_event, buffer_lock, pb, win, burst, delivery,
                spacing>>
threadedVars == <<input_buffer, t_lock, t_proc, t_slots, message_queue, t_sent,
                  appended>>
vars == <<engineVars, udpVars, bufferVars, threadedVars, fn>>

----------------------------------------------------------------------------
(* DBNEngine.process_input                                                 *)

NoCall == [input |-> <<>>, current |-> InitialState, previous |-> InitialState,
           nsent |-> 0, ok |-> FALSE, bypass |-> 0, path |-> "none"]

EngineInit ==
    /\ current_state = InitialState
    /\ previous_state = InitialState
    /\ outbox = <<>>
    /\ sent = <<>>
    /\ calls = 0
    /\ call = NoCall
    /\ processed = <<>>

\* process_input up to its first suspension point: the snapshot, the parse,
\* the classification and the list of messages.  When the parse raises, the
\* except branch logs and the call is over: nothing is sent.
ProcessInput(combined_hex) ==
    LET snap == CopyState(current_state)
        upd  == UpdateFromCombinedInput(current_state, combined_hex)
        prev == SnapshotAfterUpdate(snap, upd.state)
        idx  == CheckBypassRank(upd.state, prev)
    IN  /\ previous_state' = prev
        /\ current_state' = upd.state
        /\ outbox' = IF upd.ok THEN RunDbnAlgorithm(upd.state, prev) ELSE <<>>
        /\ calls' = calls + 1
        /\ call' = [input |-> combined_hex, current |-> current_state,
                    previous |-> previous_state, nsent |-> Len(sent),
                    ok |-> upd.ok,
                    bypass |-> IF upd.ok THEN idx ELSE 0,
                    path |-> IF upd.ok THEN RunDbnPath(idx) ELSE "none"]
        /\ processed' = Append(processed, combined_hex)
        /\ UNCHANGED sent

\* One pass of "for address, data in messages: await send_message(...)".
SendMessage ==
    /\ outbox # <<>>
    /\ sent' = Append(sent, Head(outbox))
    /\ outbox' = Tail(outbox)
    /\ UNCHANGED <<current_state, previous_state, calls, call, processed>>

\* The engine alone: process_input is called with any input, one call after
\* the other (its only caller, process_buffer, awaits it).
EngineCall ==
    /\ outbox = <<>>
    /\ calls < MaxCalls
    /\ \E x \in EngineInputs : ProcessInput(x)
    /\ UNCHANGED <<udpVars, bufferVars, threadedVars, fn>>

EngineSend ==
    /\ SendMessage
    /\ UNCHANGED <<udpVars, bufferVars, threadedVars, fn>>

----------------------------------------------------------------------------
(* UDPHandler: reassembly of /uin1 and /uin2, and the time-outs.           *)

Senders == {"s1", "s2"}

\* The two halves of one valid input, and empty text.
PartA == SubSeq(MkInput(<<"a","1","F">>, 7), 1, 19)
PartB == SubSeq(MkInput(<<"a","1","F">>, 7), 20, expected_length)
Uin1Texts == { <<>>, PartA }
Uin2Texts == { <<>>, PartB }
LegacyTexts == { MkInput(<<"0","0","0">>, 1), <<"0","1">> }

\* No entry for a sender in pending_inputs.
NoEntry == [present |-> FALSE, uin1 |-> <<>>, uin2 |-> <<>>, is_complete |-> FALSE]

\* InputState(): the dataclass defaults (timestamp is written, never read).
NewInputState == [present |-> TRUE, uin1 |-> <<>>, uin2 |-> <<>>, is_complete |-> FALSE]

\* InputState.add_input: bool(self.uin1 and self.uin2) is true when both
\* strings are non-empty.
AddInput(st, flag, data) ==
    LET u1 == IF flag = "/uin1" THEN data ELSE st.uin1
        u2 == IF flag = "/uin2" THEN data ELSE st.uin2
    IN  [present |-> TRUE, uin1 |-> u1, uin2 |-> u2,
         is_complete |-> (u1 # <<>> /\ u2 # <<>>)]

\* InputState.get_combined_hex
GetCombinedHex(st) == st.uin1 \o st.uin2

IdleHandler == [pc |-> "recv", hex |-> <<>>, key |-> "none"]

NoPair == [state |-> "none", a |-> <<>>, age |-> 0]

\* The flags whose half an entry holds.
HalvesOf(entry) ==
    (IF entry.present /\ entry.uin1 # <<>> THEN {"/uin1"} ELSE {})
        \cup (IF entry.present /\ entry.uin2 # <<>> THEN {"/uin2"} ELSE {})

UdpInit ==
    /\ pending_inputs = [s \in Senders |-> NoEntry]
    /\ timers = [s \in Senders |-> <<>>]
    /\ handler = IdleHandler
    /\ received = 0
    /\ emitted = <<>>
    /\ pair = [s \in Senders |-> NoPair]
    /\ timeouts = [s \in Senders |-> 0]
    /\ entry_age = [s \in Senders |-> 0]
    /\ removed_age = [s \in Senders |-> input_timeout_ms]
    /\ entry_flags = [s \in Senders |-> {}]
    /\ expired = [s \in Senders |-> {}]

----------------------------------------------------------------------------
(* InputBuffer                                                             *)

Cap(n, max) == IF n < max THEN n ELSE max

\* process_buffer in "await self.buffer_event.wait()".
WaitingTask == [pc |-> "wait", left |-> 0]

\* A plausible slip: the sleep is left out.
TaskWithoutSleep == [pc |-> "sleep", left |-> 0]

\* process_buffer in "await asyncio.sleep(self.buffer_time_ms / 1000.0)".
SleepingTask == [pc |-> "sleep", left |-> buffer_time_ms]

\* A plausible slip: the processor is started and not awaited
\* (create_task): process_buffer goes on at once.
TaskNotAwaiting(remaining) == WaitingTask

\* process_buffer in "await self.processor(latest_input)": it stays there,
\* inside "async with", while the call has messages to send, and goes back
\* to the event wait when the call has returned.
TaskAwaitingProcessor(remaining) ==
    IF remaining # <<>> THEN [pc |-> "processing", left |-> 0] ELSE WaitingTask

\* A plausible slip: the flush removes the entry it takes (pop) and leaves
\* the others.
BufferWithoutLatest(buf) == SubSeq(buf, 1, Len(buf) - 1)

\* self.buffer.clear()
BufferCleared(buf) == <<>>

BufferInit ==
    /\ buffer = <<>>
    /\ buffer_event = FALSE
    /\ buffer_lock = "free"
    /\ pb = WaitingTask
    /\ spacing = [since |-> buffer_time_ms + 1, gap |-> buffer_time_ms + 1]
    /\ win = [age |-> 0, pushes |-> 0, opened |-> 0, last |-> <<>>]
    /\ burst = [since |-> buffer_time_ms, deliveries |-> 0]
    /\ delivery = [n |-> 0, item |-> <<>>, expect |-> <<>>, age |-> 0, pushes |-> 0]

\* A plausible slip: a push restarts the sleep of process_buffer (a debounce
\* in the strict sense).
PushRestartsSleep(task) ==
    IF task.pc = "sleep" THEN [pc |-> "sleep", left |-> buffer_time_ms] ELSE task

\* What a push does to the process_buffer task: nothing.  buffer_event.set()
\* wakes it only when it waits for the event; a task already in its sleep
\* is not touched.
PushEffectOnTask(task) == task

\* The body of add_combined_input under the lock: append and set the event.
\* win and burst record when pushes happen.
AppendToBuffer(combined_hex) ==
    /\ buffer' = Append(buffer, combined_hex)
    /\ buffer_event' = TRUE
    /\ pb' = PushEffectOnTask(pb)
    /\ win' = IF buffer = <<>>
              THEN [age |-> 0, pushes |-> 1, opened |-> win.opened + 1,
                    last |-> combined_hex]
              ELSE [win EXCEPT !.pushes = @ + 1, !.last = combined_hex]
    /\ burst' = IF burst.since >= buffer_time_ms
                THEN [since |-> 0, deliveries |-> 0]
                ELSE [burst EXCEPT !.since = 0]
    /\ UNCHANGED <<buffer_lock, delivery, spacing>>

\* message_processor(combined_hex) as the listener runs it: with the lock
\* free, add_combined_input runs through without suspending and `after` (the
\* rest of the handler) follows at once; with the lock held the listener
\* suspends in "async with self.buffer_lock".
PushOrWait(combined_hex, key, pendingAfter, pendingWaiting) ==
    IF buffer_lock = "free"
    THEN /\ AppendToBuffer(combined_hex)
         /\ pending_inputs' = pendingAfter
         /\ handler' = IdleHandler
    ELSE /\ pending_inputs' = pendingWaiting
         /\ handler' = [pc |-> "push_wait", hex |-> combined_hex, key |-> key]
         /\ UNCHANGED bufferVars

\* How the pair tracked for a sender moves when a fragment of it arrives:
\* a non-empty /uin1 that finds no pending entry opens a pair; a non-empty
\* /uin2 that follows it in less than input_timeout_ms closes it, "done" when
\* the handler hands A ++ B downstream and "missed" when it does not.
PairAfter(p, hadEntry, flag, data, completes, combined) ==
    IF flag = "/uin1" /\ data # <<>> /\ ~hadEntry
    THEN [state |-> "open", a |-> data, age |-> 0]
    ELSE IF flag = "/uin2" /\ data # <<>> /\ p.state = "open"
            /\ p.age < input_timeout_ms
    THEN [state |-> IF completes /\ combined = p.a \o data
                    THEN "done" ELSE "missed",
          a |-> p.a, age |-> p.age]
    ELSE NoPair

\* UDPHandler._handle_user_input, run by the listener for a /uin1 or /uin2
\* datagram of sender s.
HandleUserInput(s, flag, data) ==
    LET had == pending_inputs[s].present
        st0 == IF had THEN pending_inputs[s] ELSE NewInputState
        st1 == AddInput(st0, flag, data)
        combined == GetCombinedHex(st1)
    IN  /\ pair' = [pair EXCEPT
                       ![s] = PairAfter(@, had, flag, data, st1.is_complete, combined)]
        /\ IF st1.is_complete
           THEN /\ emitted' = Append(emitted, [key |-> s, hex |-> combined])
                /\ PushOrWait(combined, s,
                              [pending_inputs EXCEPT ![s] = NoEntry],
                              [pending_inputs EXCEPT ![s] = st1])
                /\ UNCHANGED timers
           ELSE /\ Len(timers[s]) < MaxTimers
                /\ pending_inputs' = [pending_inputs EXCEPT ![s] = st1]
                /\ timers' = [timers EXCEPT ![s] = Append(@, input_timeout_ms)]
                /\ UNCHANGED <<emitted, handler, bufferVars>>
        /\ entry_age' = [entry_age EXCEPT
                            ![s] = IF had /\ pending_inputs'[s].present
                                   THEN @ ELSE 0]
        /\ entry_flags' = [entry_flags EXCEPT
                              ![s] = IF pending_inputs'[s].present
                                     THEN (IF had THEN @ ELSE {}) \cup {flag}
                                     ELSE {}]
        /\ expired' = [expired EXCEPT
                          ![s] = (@ \ {flag}) \cap HalvesOf(pending_inputs'[s])]

\* The listener receives a /uin1 or /uin2 datagram
\* (process_received_message, first branch).
ReceiveFragmentFrom(senders, limit) ==
    /\ handler.pc = "recv"
    /\ received < limit
    /\ received' = received + 1
    /\ \E s \in senders :
          \/ \E d \in Uin1Texts : HandleUserInput(s, "/uin1", d)
          \/ \E d \in Uin2Texts : HandleUserInput(s, "/uin2", d)
    /\ UNCHANGED <<timeouts, removed_age, engineVars, threadedVars, fn>>

\* The listener receives a legacy /uin datagram: its text goes to
\* message_processor as it is.
ReceiveLegacyWithin(limit) ==
    /\ handler.pc = "recv"
    /\ received < limit
    /\ received' = received + 1
    /\ \E d \in LegacyTexts :
          /\ emitted' = Append(emitted, [key |-> "legacy", hex |-> d])
          /\ PushOrWait(d, "legacy", pending_inputs, pending_inputs)
    /\ UNCHANGED <<timers, pair, timeouts, entry_age, removed_age, entry_flags,
                   expired, engineVars, threadedVars, fn>>

ReceiveFragmentWithin(limit) == ReceiveFragmentFrom(Senders, limit)

ReceiveFragment == ReceiveFragmentWithin(MaxDatagrams)
ReceiveLegacy == ReceiveLegacyWithin(MaxDatagrams)

\* The same up to MaxLiveDatagrams, with the fragments of one sender.
LiveSenders == {"s1"}
ReceiveFragmentLive == ReceiveFragmentFrom(LiveSenders, MaxLiveDatagrams)
ReceiveLegacyLive == ReceiveLegacyWithin(MaxLiveDatagrams)

\* The same with one datagram more.
ReceiveFragmentDeep == ReceiveFragmentWithin(MaxDatagrams + 1)
ReceiveLegacyDeep == ReceiveLegacyWithin(MaxDatagrams + 1)

\* The listener, suspended in add_combined_input, gets the lock: it appends,
\* and _handle_user_input goes on to "del self.pending_inputs[session_key]".
HandlerResume ==
    /\ handler.pc = "push_wait"
    /\ buffer_lock = "free"
    /\ AppendToBuffer(handler.hex)
    /\ pending_inputs' = IF handler.key \in Senders
                         THEN [pending_inputs EXCEPT ![handler.key] = NoEntry]
                         ELSE pending_inputs
    /\ handler' = IdleHandler
    /\ entry_age' = [s \in Senders |->
                       IF pending_inputs'[s].present THEN entry_age[s] ELSE 0]
    /\ entry_flags' = [s \in Senders |->
                         IF pending_inputs'[s].present THEN entry_flags[s] ELSE {}]
    /\ expired' = [s \in Senders |->
                     expired[s] \cap HalvesOf(pending_inputs'[s])]
    /\ UNCHANGED <<timers, received, emitted, pair, timeouts, removed_age,
                   engineVars, threadedVars, fn>>

\* A plausible slip: the time-out task logs the time-out and resets the
\* entry's flag, and does not delete the entry.
TimeoutMarksIncomplete(entry) ==
    IF entry.present THEN [entry EXCEPT !.is_complete = FALSE] ELSE entry

\* A plausible slip: the time-out task deletes the entry it finds, complete
\* or not.
TimeoutIgnoresComplete(entry) == NoEntry

\* A plausible slip: the time-out task finds the entry and leaves it.
TimeoutKeepsEntry(entry) == entry

\* What _timeout_incomplete_input does to the sender's entry after its
\* sleep: an entry that is there and not complete is deleted.
TimeoutEffect(entry) ==
    IF entry.present /\ ~entry.is_complete THEN NoEntry ELSE entry

\* A _timeout_incomplete_input task of sender s wakes from its sleep.
TimeoutFire ==
    /\ \E s \in Senders :
          /\ timers[s] # <<>>
          /\ Head(timers[s]) = 0
          /\ timers' = [timers EXCEPT ![s] = Tail(@)]
          /\ pending_inputs' = [pending_inputs EXCEPT ![s] = TimeoutEffect(@)]
          /\ timeouts' = [timeouts EXCEPT
                             ![s] = IF pending_inputs'[s] # pending_inputs[s]
                                    THEN @ + 1 ELSE @]
          /\ removed_age' = [removed_age EXCEPT
                                ![s] = IF pending_inputs'[s] # pending_inputs[s]
                                       THEN entry_age[s] ELSE @]
          /\ entry_age' = [entry_age EXCEPT
                              ![s] = IF pending_inputs'[s].present THEN @ ELSE 0]
          /\ entry_flags' = [entry_flags EXCEPT
                                ![s] = IF pending_inputs'[s].present THEN @ ELSE {}]
          /\ expired' = [expired EXCEPT
                            ![s] = IF pending_inputs[s].present
                                      /\ ~pending_inputs[s].is_complete
                                   THEN HalvesOf(pending_inputs[s])
                                           \cap HalvesOf(pending_inputs'[s])
                                   ELSE @]
    /\ UNCHANGED <<handler, received, emitted, pair, engineVars, bufferVars,
                   threadedVars, fn>>

\* process_buffer returns from buffer_event.wait() and starts its sleep.
StartSleep ==
    /\ pb.pc = "wait"
    /\ buffer_event
    /\ pb' = SleepingTask
    /\ UNCHANGED <<buffer, buffer_event, buffer_lock, win, burst, delivery,
                   spacing, engineVars, udpVars, threadedVars, fn>>

\* A plausible slip: the oldest entry of the buffer is taken.
OldestOf(buf) == buf[1]

\* self.buffer[-1]['data']
LatestOf(buf) == buf[Len(buf)]

\* process_buffer after its sleep: it takes the lock and, with a non-empty
\* buffer, takes the latest entry, clears buffer and event and awaits the
\* processor, still holding the lock.  The call runs to its first send; a
\* call that sends nothing returns at once and the lock is released.
Flush ==
    /\ pb.pc = "sleep"
    /\ pb.left = 0
    /\ buffer_lock = "free"
    /\ IF buffer # <<>>
       THEN LET latest_input == LatestOf(buffer)
            IN  /\ buffer' = BufferCleared(buffer)
                /\ buffer_event' = FALSE
                /\ ProcessInput(latest_input)
                /\ delivery' = [n |-> delivery.n + 1, item |-> latest_input,
                                expect |-> win.last, age |-> win.age,
                                pushes |-> win.pushes]
                /\ win' = [win EXCEPT !.pushes = 0]
                /\ burst' = [burst EXCEPT !.deliveries = Cap(@ + 1, 2)]
                /\ spacing' = [since |-> 0, gap |-> spacing.since]
                /\ pb' = TaskAwaitingProcessor(outbox')
                /\ buffer_lock' = IF pb'.pc = "processing"
                                  THEN "process_buffer" ELSE "free"
       ELSE /\ pb' = WaitingTask
            /\ UNCHANGED <<buffer, buffer_event, buffer_lock, win, burst,
                           delivery, spacing, engineVars>>
    /\ UNCHANGED <<udpVars, threadedVars, fn>>

\* process_input, awaited by process_buffer, sends its next message; after
\* the last one it returns, process_buffer leaves "async with" and goes back
\* to buffer_event.wait().
ProcessSend ==
    /\ pb.pc = "processing"
    /\ SendMessage
    /\ pb' = TaskAwaitingProcessor(outbox')
    /\ buffer_lock' = IF pb'.pc = "processing" THEN "process_buffer" ELSE "free"
    /\ UNCHANGED <<buffer, buffer_event, win, burst, delivery, spacing, udpVars,
                   threadedVars, fn>>

\* Something is ready to run now: time does not pass before it has run.
Due ==
    \/ \E s \in Senders : timers[s] # <<>> /\ Head(timers[s]) = 0
    \/ pb.pc = "sleep" /\ pb.left = 0
    \/ pb.pc = "wait" /\ buffer_event
    \/ handler.pc = "push_wait" /\ buffer_lock = "free"

\* One tick passes: every sleep has one tick less to go.
Tick ==
    /\ ~Due
    /\ timers' = [s \in Senders |-> [i \in 1..Len(timers[s]) |-> timers[s][i] - 1]]
    /\ pb' = IF pb.pc = "sleep" THEN [pb EXCEPT !.left = @ - 1] ELSE pb
    /\ win' = [win EXCEPT !.age = Cap(@ + 1, buffer_time_ms + 1)]
    /\ burst' = [burst EXCEPT !.since = Cap(@ + 1, buffer_time_ms)]
    /\ pair' = [s \in Senders |->
                  IF pair[s].state = "open"
                  THEN [pair[s] EXCEPT !.age = Cap(@ + 1, input_timeout_ms)]
                  ELSE pair[s]]
    /\ entry_age' = [s \in Senders |->
                       IF pending_inputs[s].present
                       THEN Cap(entry_age[s] + 1, input_timeout_ms) ELSE 0]
    /\ spacing' = [spacing EXCEPT !.since = Cap(@ + 1, buffer_time_ms + 1)]
    /\ UNCHANGED <<pending_inputs, handler, received, emitted, timeouts,
                   removed_age, entry_flags, expired, buffer,
                   buffer_event, buffer_lock, delivery, engineVars,
                   threadedVars, fn>>

----------------------------------------------------------------------------
(* Threaded variant: input_buffer, buffer_processor, route_to_DBN, DBN.    *)

ThreadedInputs ==
    { MkInput(<<"a","1","F">>, 7), MkInput(<<"0","0","0">>, 0),
      <<"0","1">>, SetAt(BaseInput, 20, "G") }

\* sustain = [0, 0] ... rank8 = [[0,0,0,0], [0,0,0,0]]: slot 1 of the model
\* is index 0 of the code (current), slot 2 is index 1 (next).
InitialSlots ==
    [sustain |-> <<0, 0>>, densityFunction |-> <<0, 0>>, keyCenter |-> <<0, 0>>,
     ranks |-> [i \in 1..num_ranks |-> <<ZeroRank, ZeroRank>>]]

ThreadedInit ==
    /\ input_buffer = <<>>
    /\ t_lock = "free"
    /\ t_proc = [pc |-> "sleep"]
    /\ t_slots = InitialSlots
    /\ message_queue = <<>>
    /\ t_sent = <<>>
    /\ appended = 0

\* 1-based position at which route_to_DBN raises, or expected_length + 1: a
\* missing character among the first three (IndexError) or a character
\* int(char, 16) rejects among those the slices reach (ValueError).
RouteFirstBad(uin) ==
    Min({p \in 1..expected_length :
            \/ p <= 3 /\ p > Len(uin)
            \/ p <= Len(uin) /\ ~IsHex(uin[p])} \cup {expected_length + 1})

\* uin[start:end] for rank i: a slice past the end of uin is short or empty.
RouteSlice(uin, i) ==
    SubSeq(uin, 3 + (i - 1) * rank_size + 1, Min({3 + i * rank_size, Len(uin)}))

\* route_to_DBN up to the call of DBN(): the next slots are stored one
\* after the other until a character fails.
RouteToDBN(slots, uin) ==
    LET fb == RouteFirstBad(uin)
    IN  [ok |-> fb > expected_length,
         slots |->
            [sustain |-> IF fb > 1 THEN <<slots.sustain[1], HexVal(uin[1])>>
                         ELSE slots.sustain,
             densityFunction |->
                IF fb > 2 THEN <<slots.densityFunction[1], HexVal(uin[2])>>
                ELSE slots.densityFunction,
             keyCenter |-> IF fb > 3 THEN <<slots.keyCenter[1], HexVal(uin[3])>>
                           ELSE slots.keyCenter,
             ranks |-> [i \in 1..num_ranks |->
                IF fb > 3 + i * rank_size
                THEN <<slots.ranks[i][1],
                       [k \in 1..Len(RouteSlice(uin, i)) |->
                           HexVal(RouteSlice(uin, i)[k])]>>
                ELSE slots.ranks[i]]]]

\* checkBypass
CheckBypass(slots) ==
    IF \E i \in 1..num_ranks : slots.ranks[i][1] # slots.ranks[i][2]
    THEN Min({i \in 1..num_ranks : slots.ranks[i][1] # slots.ranks[i][2]})
    ELSE 0

\* A plausible slip: updateNextsToCurrents leaves the ranks out.
UpdateWithoutRanks(slots) ==
    [sustain |-> <<slots.sustain[2], slots.sustain[2]>>,
     densityFunction |-> <<slots.densityFunction[2], slots.densityFunction[2]>>,
     keyCenter |-> <<slots.keyCenter[2], slots.keyCenter[2]>>,
     ranks |-> slots.ranks]

\* updateNextsToCurrents: every current slot takes the next slot's value.
UpdateNextsToCurrents(slots) ==
    [sustain |-> <<slots.sustain[2], slots.sustain[2]>>,
     densityFunction |-> <<slots.densityFunction[2], slots.densityFunction[2]>>,
     keyCenter |-> <<slots.keyCenter[2], slots.keyCenter[2]>>,
     ranks |-> [i \in 1..num_ranks |-> <<slots.ranks[i][2], slots.ranks[i][2]>>]]

\* sendValues
SendValues(slots) ==
    << [address |-> "/sustain", data |-> slots.sustain[1]],
       [address |-> "/keyCenter", data |-> slots.keyCenter[1]] >>

\* The branch DBN() takes: actuallyRunDBN below 7 (0 included), subsRank
\* for 7 and 8.  Both return updateNextsToCurrents().
DBNPath(idx) == IF idx < 7 THEN "actuallyRunDBN" ELSE "subsRank"

\* udp_listener decodes a /uin datagram and appends its text under the lock.
T_Listen ==
    /\ appended < MaxAppends
    /\ t_lock = "free"
    /\ \E uin \in ThreadedInputs : input_buffer' = Append(input_buffer, uin)
    /\ appended' = appended + 1
    /\ UNCHANGED <<t_lock, t_proc, t_slots, message_queue, t_sent,
                   engineVars, udpVars, bufferVars, fn>>

\* buffer_processor wakes from time.sleep and enters "with buffer_lock".
T_Acquire ==
    /\ t_proc.pc = "sleep"
    /\ t_lock = "free"
    /\ t_lock' = "buffer_processor"
    /\ t_proc' = [pc |-> "locked"]
    /\ UNCHANGED <<input_buffer, t_slots, message_queue, t_sent, appended,
                   engineVars, udpVars, bufferVars, fn>>

\* The body under the lock: with a non-empty buffer the last input is
\* taken, the buffer cleared and route_to_DBN called; its messages go to
\* message_queue.  An exception of route_to_DBN is caught nowhere in
\* buffer_processor: it leaves "with" (the lock is released) and ends the
\* thread.
T_Process ==
    /\ t_proc.pc = "locked"
    /\ t_lock' = "free"
    /\ IF input_buffer # <<>>
       THEN LET last_input == input_buffer[Len(input_buffer)]
                routed == RouteToDBN(t_slots, last_input)
                after == UpdateNextsToCurrents(routed.slots)
            IN  /\ input_buffer' = <<>>
                /\ IF routed.ok
                   THEN /\ t_slots' = after
                        /\ message_queue' = message_queue \o SendValues(after)
                        /\ t_proc' = [pc |-> "sleep"]
                   ELSE /\ t_slots' = routed.slots
                        /\ t_proc' = [pc |-> "dead"]
                        /\ UNCHANGED message_queue
       ELSE /\ t_proc' = [pc |-> "sleep"]
            /\ UNCHANGED <<input_buffer, t_slots, message_queue>>
    /\ UNCHANGED <<t_sent, appended, engineVars, udpVars, bufferVars, fn>>

\* udp_sender takes a message from the queue, encodes and sends it.
T_Send ==
    /\ message_queue # <<>>
    /\ t_sent' = Append(t_sent, Head(message_queue))
    /\ message_queue' = Tail(message_queue)
    /\ UNCHANGED <<input_buffer, t_lock, t_proc, t_slots, appended,
                   engineVars, udpVars, bufferVars, fn>>

----------------------------------------------------------------------------
(* Both variants on the same inputs.                                       *)

\* DBN(): actuallyRunDBN and subsRank both return updateNextsToCurrents(),
\* and so does the last line.
DBN(slots) == UpdateNextsToCurrents(slots)

\* One well-formed input is given to both variants: process_input of the
\* asyncio engine up to its first send, and route_to_DBN of the threaded
\* variant with its messages put on message_queue as buffer_processor
\* does.  The next input comes when both have sent their messages.
BothProcess ==
    /\ outbox = <<>>
    /\ message_queue = <<>>
    /\ calls < MaxCalls
    /\ \E x \in ValidInputs :
          /\ ProcessInput(x)
          /\ LET after == DBN(RouteToDBN(t_slots, x).slots)
             IN  /\ t_slots' = after
                 /\ message_queue' = message_queue \o SendValues(after)
    /\ UNCHANGED <<input_buffer, t_lock, t_proc, t_sent, appended, udpVars,
                   bufferVars, fn>>

----------------------------------------------------------------------------
(* Wire codec: _encode_osc_message / encode_data_in_bytes.                 *)

\* data.to_bytes(4, byteorder='big', signed=True) for an int32: the four
\* bytes of the two's-complement form (\div rounds down, % is never
\* negative).
ToBytes4(data) ==
    << (data \div 16777216) % 256, (data \div 65536) % 256,
       (data \div 256) % 256, data % 256 >>

\* b",i\x00\x00"
TypeTag == <<44, 105, 0, 0>>

\* A plausible slip: the padding is computed from the address without its
\* NUL terminator.
PaddingWithoutNul(address) == (4 - (Len(address) % 4)) % 4

\* padding = (4 - len(encoded_addr) % 4) % 4, encoded_addr being the
\* address bytes and one NUL.
Padding(address) == (4 - ((Len(address) + 1) % 4)) % 4

\* encoded_addr after padding.
EncodedAddr(address) == address \o <<0>> \o Rep(0, Padding(address))

\* UDPHandler._encode_osc_message (encode_data_in_bytes is the same code).
EncodeOscMessage(address, data) ==
    EncodedAddr(address) \o (TypeTag \o ToBytes4(data))

\* Bytes of "/" and "u"; every address of 1..MaxAddrLen of them.
AddressBytes == {47, 117}
Addresses == UNION { [1..n -> AddressBytes] : n \in 1..MaxAddrLen }
Int32Values == {0, 2, 15, -1, 2147483647, (-2147483647) - 1}

NoFn == [op |-> "none"]

InitEncode ==
    /\ EngineInit /\ UdpInit /\ BufferInit /\ ThreadedInit
    /\ \E a \in Addresses, v \in Int32Values :
          fn = [op |-> "encode", address |-> a, data |-> v, done |-> FALSE,
                result |-> <<>>]

Encode ==
    /\ fn.op = "encode"
    /\ ~fn.done
    /\ fn' = [fn EXCEPT !.done = TRUE,
                        !.result = EncodeOscMessage(fn.address, fn.data)]
    /\ UNCHANGED <<engineVars, udpVars, bufferVars, threadedVars>>

----------------------------------------------------------------------------
(* Wire codec: _decode_osc_message.  Offsets are 0-based as in the code;   *)
(* data[k] of the code is data[k + 1] here.                                *)

\* data.find(b'\x00', start): 0-based index of the first NUL at or after
\* start, or -1.
FindNul(data, start) ==
    IF \E k \in start..(Len(data) - 1) : data[k + 1] = 0
    THEN Min({k \in start..(Len(data) - 1) : data[k + 1] = 0})
    ELSE -1

\* A plausible slip: rounding up to the boundary without counting the
\* terminator.
AlignWithoutTerminator(n) == ((n + 3) \div 4) * 4

\* (n + 4) & ~0x03
AlignPastTerminator(n) == ((n + 4) \div 4) * 4

RECURSIVE StripNul(_)
\* str.strip('\x00'): leading and trailing NULs are removed.
StripNul(s) ==
    IF s = <<>> THEN <<>>
    ELSE IF Head(s) = 0 THEN StripNul(Tail(s))
    ELSE IF s[Len(s)] = 0 THEN StripNul(SubSeq(s, 1, Len(s) - 1))
    ELSE s

\* What the except branch of _decode_osc_message returns: ("", "").
DecodeFailed ==
    [raised |-> TRUE, address |-> <<>>, input_data |-> <<>>,
     data_offset |-> -1, input_offset |-> -1]

\* UDPHandler._decode_osc_message.  The text of the payload is given by its
\* code points: the frames of the model hold no valid multi-byte UTF-8
\* sequence, so the UTF-8 decoding of an ASCII payload and the latin-1
\* fallback of any other both give one character per byte.
DecodeOscMessage(data) ==
    LET address_end == FindNul(data, 0)
    IN  IF address_end = -1 THEN DecodeFailed
        ELSE
        LET address == SubSeq(data, 1, address_end)
            data_offset == AlignPastTerminator(address_end)
        IN  IF data_offset >= Len(data) THEN DecodeFailed
            ELSE
            LET found == FindNul(data, data_offset)
                data_tag_end == IF found = -1 THEN Len(data) ELSE found
                input_offset == AlignPastTerminator(data_tag_end)
            IN  [raised |-> FALSE, address |-> address,
                 input_data |->
                    IF input_offset >= Len(data) THEN <<>>
                    ELSE StripNul(SubSeq(data, input_offset + 1, Len(data))),
                 data_offset |-> data_offset,
                 input_offset |-> input_offset]

\* Addresses given to the encoder and decoded again: the empty address too.
CodecAddresses == Addresses \cup { <<>> }

\* b",s\x00\x00": the type tag of the frames MaxMSP sends.
StringTag == <<44, 115, 0, 0>>

\* Frames as they arrive from the network: an address section alone, an
\* address section and a type tag, both with a text payload, and bytes
\* without any NUL.
InboundFrames ==
    LET uin1 == EncodedAddr(<<47, 117, 105, 110, 49>>)
        uin  == EncodedAddr(<<47, 117, 105, 110>>)
    IN  { uin1, uin, uin1 \o StringTag, uin \o StringTag,
          uin1 \o StringTag \o <<97, 49, 70, 0>>,
          uin \o StringTag \o <<48, 49, 0, 0>>,
          <<47, 117, 105, 110>> }

NoDecode == [raised |-> FALSE, address |-> <<>>, input_data |-> <<>>,
             data_offset |-> 0, input_offset |-> 0]

\* Either an address and a value to encode and decode again, or a frame
\* from the network to decode.
InitCodec ==
    /\ EngineInit /\ UdpInit /\ BufferInit /\ ThreadedInit
    /\ \/ \E a \in CodecAddresses, v \in Int32Values :
             fn = [op |-> "codec", stage |-> "start", address |-> a,
                   data |-> v, frame |-> <<>>, decoded |-> NoDecode]
       \/ \E f \in InboundFrames :
             fn = [op |-> "codec", stage |-> "inbound", address |-> <<>>,
                   data |-> 0, frame |-> f, decoded |-> NoDecode]

CodecEncode ==
    /\ fn.op = "codec"
    /\ fn.stage = "start"
    /\ fn' = [fn EXCEPT !.stage = "encoded",
                        !.frame = EncodeOscMessage(fn.address, fn.data)]
    /\ UNCHANGED <<engineVars, udpVars, bufferVars, threadedVars>>

CodecDecode ==
    /\ fn.op = "codec"
    /\ fn.stage \in {"encoded", "inbound"}
    /\ fn' = [fn EXCEPT !.stage = IF fn.stage = "encoded" THEN "round_trip"
                                  ELSE "received",
                        !.decoded = DecodeOscMessage(fn.frame)]
    /\ UNCHANGED <<engineVars, udpVars, bufferVars, threadedVars>>

----------------------------------------------------------------------------
(* Classification as a function of two states.                             *)

RankVals == { <<0,0,0,1>>, <<1,0,0,0>>, <<0,15,0,0>> }
HeadVals == { <<0,0,0>>, <<5,0,9>>, <<0,3,0>> }

\* A state with the given head values, rank i = v and rank j = w (0: none),
\* every other rank zero.
MkState(hd, i, v, j, w) ==
    [sustain |-> hd[1], density_function |-> hd[2], key_center |-> hd[3],
     ranks |-> [r \in 1..num_ranks |->
                  IF r = j THEN w ELSE IF r = i THEN v ELSE ZeroRank]]

ClassifyCurrent ==
    { MkState(hd, i, v, j, w) :
        hd \in HeadVals, i \in 0..num_ranks, v \in RankVals,
        j \in 0..num_ranks, w \in RankVals }

ClassifyPrevious ==
    { MkState(hd, i, v, 0, v) : hd \in HeadVals, i \in 0..num_ranks, v \in RankVals }

InitClassify ==
    /\ EngineInit /\ UdpInit /\ BufferInit /\ ThreadedInit
    /\ \E c \in ClassifyCurrent, p \in ClassifyPrevious :
          fn = [op |-> "classify", current |-> c, previous |-> p,
                done |-> FALSE, result |-> 0]

Classify ==
    /\ fn.op = "classify"
    /\ ~fn.done
    /\ fn' = [fn EXCEPT !.done = TRUE,
                        !.result = CheckBypassRank(fn.current, fn.previous)]
    /\ UNCHANGED <<engineVars, udpVars, bufferVars, threadedVars>>

----------------------------------------------------------------------------
(* Specifications                                                          *)

Init == EngineInit /\ UdpInit /\ BufferInit /\ ThreadedInit /\ fn = NoFn

\* The asyncio variant: listener, time-out tasks, process_buffer and the
\* engine it calls, with time.
Next ==
    \/ ReceiveFragment
    \/ ReceiveLegacy
    \/ HandlerResume
    \/ TimeoutFire
    \/ StartSleep
    \/ Flush
    \/ ProcessSend
    \/ Tick

Spec == Init /\ [][Next]_vars

\* What the event loop does by itself: it runs a task that is ready, and
\* time passes.
Internal ==
    \/ HandlerResume
    \/ TimeoutFire
    \/ StartSleep
    \/ Flush
    \/ ProcessSend
    \/ Tick

\* The event loop does not stop while a task is ready or a sleep is running
\* (time does not pass a task that is due, so no due task is passed over).
NextLive == ReceiveFragmentLive \/ ReceiveLegacyLive \/ Internal
FairSpec == Init /\ [][NextLive]_vars /\ WF_vars(Internal)

\* The asyncio variant explored one datagram further.
NextDeep ==
    \/ ReceiveFragmentDeep
    \/ ReceiveLegacyDeep
    \/ HandlerResume
    \/ TimeoutFire
    \/ StartSleep
    \/ Flush
    \/ ProcessSend
    \/ Tick

SpecDeep == Init /\ [][NextDeep]_vars

\* DBNEngine.process_input alone, on any input.
NextEngine == EngineCall \/ EngineSend
SpecEngine == Init /\ [][NextEngine]_vars

\* The threaded variant.
NextThreaded == T_Listen \/ T_Acquire \/ T_Process \/ T_Send
SpecThreaded == Init /\ [][NextThreaded]_vars

SpecEncode == InitEncode /\ [][Encode]_vars

SpecClassify == InitClassify /\ [][Classify]_vars

\* Both variants fed the same well-formed inputs, one at a time.
NextBoth == BothProcess \/ EngineSend \/ T_Send
SpecBoth == Init /\ [][NextBoth]_vars

\* The encoder followed by the decoder, and the decoder on network frames.
NextCodec == CodecEncode \/ CodecDecode
SpecCodec == InitCodec /\ [][NextCodec]_vars

----------------------------------------------------------------------------
(* Claims                                                                  *)

\* C1, as stated: in a chain of pushes in which every push follows the one
\* before it by less than buffer_time_ms, there is exactly one delivery, so
\* never a second one within the chain.
C1_OneDeliveryPerChain == burst.deliveries <= 1

\* C1, amended: the window is opened by the first push into the empty buffer
\* and later pushes do not restart it.  Every flush comes exactly
\* buffer_time_ms after the push that opened its window, it delivers the
\* item pushed last, and every window opened gets exactly one delivery (the
\* pushes made before the flush are coalesced into it).
C1_FixedWindow ==
    /\ delivery.n > 0 =>
          /\ delivery.item = delivery.expect
          /\ delivery.age = buffer_time_ms
    /\ win.opened = delivery.n + (IF buffer # <<>> THEN 1 ELSE 0)

\* A window with three pushes has been flushed as one delivery.
C1_Witness == delivery.n = 1 /\ delivery.pushes = 3 /\ buffer = <<>>

\* C2: a non-empty /uin1 A that finds no pending entry of its sender,
\* followed in less than input_timeout_ms by the sender's non-empty /uin2 B
\* with no fragment of that sender in between, gives the combined input
\* A ++ B, and once the handler is through the sender's entry is gone.
C2_PairCompletes ==
    \A s \in Senders :
        /\ pair[s].state # "missed"
        /\ (pair[s].state = "done" /\ handler.pc = "recv")
              => ~pending_inputs[s].present

\* Nothing further arrives.
Quiet == received = MaxLiveDatagrams

\* C3: when nothing further arrives, a sender's incomplete entry is
\* eventually removed, and the time-out that removes it hands nothing
\* downstream (no combined input, no push).
C3_TimeoutCleanup ==
    /\ \A s \in Senders :
          (Quiet /\ pending_inputs[s].present /\ ~pending_inputs[s].is_complete)
             ~> ~pending_inputs[s].present
    /\ [][TimeoutFire => (emitted' = emitted /\ buffer' = buffer)]_vars

\* A sender sent one half only; the time-out removed its entry and no
\* combined input of that sender was ever handed downstream.
C3_Witness ==
    \E s \in Senders :
        /\ Quiet
        /\ timeouts[s] = 1
        /\ ~pending_inputs[s].present
        /\ timers[s] = <<>>
        /\ \A i \in 1..Len(emitted) : emitted[i].key # s

\* What the last process_input call left of the engine: current_state as
\* it was before the call, and nothing sent or to be sent.
CallLeftNoTrace ==
    /\ current_state = call.current
    /\ outbox = <<>>
    /\ Len(sent) = call.nsent

\* C4: an input whose length is not 35 leaves current_state unchanged and
\* sends nothing.
C4_InvalidLength ==
    (calls > 0 /\ Len(call.input) # expected_length) => CallLeftNoTrace

\* The too-short input "01" was rejected by an engine whose state an
\* earlier input had changed.
C4_Witness ==
    /\ calls > 1
    /\ call.input = <<"0","1">>
    /\ call.current # InitialState
    /\ current_state = call.current

\* C5: a 35-character input with a character that is no hexadecimal digit
\* leaves current_state unchanged and sends nothing.
C5_InvalidDigit ==
    (calls > 0 /\ Len(call.input) = expected_length
        /\ FirstBad(call.input) <= expected_length) => CallLeftNoTrace

\* C6: the classification is the smallest 1-based index of a rank that
\* differs from the previous one in any of its values, and 0 when no rank
\* differs, whatever sustain, density_function and key_center are.
C6_Classification ==
    (fn.op = "classify" /\ fn.done) =>
        LET differs == { i \in 1..num_ranks :
                           \E k \in 1..rank_size :
                              fn.current.ranks[i][k] # fn.previous.ranks[i][k] }
        IN  /\ differs # {} => fn.result = Min(differs)
            /\ differs = {} => fn.result = 0

\* Rank 8 alone differs, in a value that is not its first, and so does the
\* head: the result is 8.
C6_Witness ==
    /\ fn.op = "classify" /\ fn.done
    /\ fn.result = num_ranks
    /\ fn.current.ranks[num_ranks][1] = fn.previous.ranks[num_ranks][1]
    /\ fn.current.sustain # fn.previous.sustain

\* C7: index 0 takes the path without structural change, every index from
\* 1 through 7 the full recompute, and only index 8 the substitution.
C7_PathRouting ==
    (calls > 0 /\ call.ok) =>
        /\ call.bypass = 0 => call.path = "send_current_values"
        /\ call.bypass \in 1..7 => call.path = "execute_full_dbn"
        /\ call.bypass = 8 => call.path = "substitute_rank"

RECURSIVE ExpectedMessages(_)
\* ("/sustain", digit 0), ("/keyCenter", digit 2) for every input that is 35
\* hexadecimal digits, in the order of the inputs.
ExpectedMessages(inputs) ==
    IF inputs = <<>> THEN <<>>
    ELSE LET x == Head(inputs)
         IN  (IF IsAccepted(x)
              THEN << [address |-> "/sustain", data |-> HexVal(x[1])],
                      [address |-> "/keyCenter", data |-> HexVal(x[3])] >>
              ELSE <<>>) \o ExpectedMessages(Tail(inputs))

\* C8: what has been sent, followed by what the running call has still to
\* send, is exactly the two messages of every accepted input, in the order
\* of the inputs.
C8_OutboundMessages == sent \o outbox = ExpectedMessages(processed)

\* Three accepted inputs in a row took the three paths, and all six
\* messages are sent.
C8_Witness ==
    /\ calls = 3
    /\ Len(sent) = 6
    /\ call.path = "substitute_rank"
    /\ sent[3].data # sent[5].data

\* C9: an input that fails in route_to_DBN does not stop buffer_processor:
\* while a valid input waits in input_buffer the thread is there to take it.
C9_ErrorContainment ==
    (\E i \in 1..Len(input_buffer) : IsAccepted(input_buffer[i]))
        => t_proc.pc # "dead"

\* C10: the frame is the address, a NUL and zero padding up to a length that
\* is a multiple of 4 and at least len(address) + 1, followed by exactly 8
\* bytes: the type tag and the integer.
C10_EncodeAlignment ==
    (fn.op = "encode" /\ fn.done) =>
        LET n == Len(fn.address)
            section == Len(fn.result) - 8
        IN  /\ section % 4 = 0
            /\ section >= n + 1
            /\ SubSeq(fn.result, 1, n) = fn.address
            /\ \A i \in (n + 1)..section : fn.result[i] = 0
            /\ SubSeq(fn.result, section + 1, section + 4) = TypeTag
            /\ SubSeq(fn.result, section + 5, section + 8) = ToBytes4(fn.data)

\* A 4-byte address takes a NUL and three bytes of padding: 8 + 8 bytes.
C10_Witness ==
    /\ fn.op = "encode" /\ fn.done
    /\ Len(fn.address) = 4
    /\ Len(fn.result) = 16

\* The value four bytes stand for as a big-endian two's-complement integer.
FromBytes4(b) ==
    ((IF b[1] >= 128 THEN b[1] - 256 ELSE b[1]) * 16777216)
        + (b[2] * 65536) + (b[3] * 256) + b[4]

\* C11: decoding encode(address, value) gives the address back, and the
\* payload offset the decoder computes is the start of the last 4 bytes of
\* the frame, which are the big-endian two's-complement form of value.
C11_CodecRoundTrip ==
    (fn.op = "codec" /\ fn.stage = "round_trip") =>
        LET off == fn.decoded.input_offset
            payload == SubSeq(fn.frame, off + 1, Len(fn.frame))
        IN  /\ ~fn.decoded.raised
            /\ fn.decoded.address = fn.address
            /\ off + 4 = Len(fn.frame)
            /\ \A k \in 1..4 : payload[k] \in 0..255
            /\ FromBytes4(payload) = fn.data

\* A 7-byte address (its section is 8 bytes with the terminator alone) and
\* a negative value went through encoder and decoder.
C11_Witness ==
    /\ fn.op = "codec" /\ fn.stage = "round_trip"
    /\ Len(fn.address) = 7
    /\ fn.data = -1
    /\ fn.decoded.input_offset = 12

\* C12: whenever a time-out deletes a sender's pending entry, at least
\* input_timeout_ms have passed since that entry was created.
C12_TimeoutSafety == \A s \in Senders : removed_age[s] >= input_timeout_ms

\* C13: an input rejected for its length or for a character that is no
\* hexadecimal digit leaves previous_state as it was before the call.
C13_SnapshotOnlyOnSuccess ==
    (calls > 0 /\ ~call.ok) => previous_state = call.previous

\* The state the positions of a 35-digit input stand for: sustain, density,
\* keyCenter, then 8 groups of 4 for ranks 1..8.
PositionalParse(hex) ==
    [sustain |-> HexVal(hex[1]), density_function |-> HexVal(hex[2]),
     key_center |-> HexVal(hex[3]),
     ranks |-> [i \in 1..num_ranks |->
                  [k \in 1..rank_size |-> HexVal(hex[3 + ((i - 1) * rank_size) + k])]]]

\* C14: after an accepted input, and as long as no further input is
\* processed, previous_state is what current_state was right before the
\* input was parsed and current_state is the positional parse of the input;
\* the update of current_state did not reach the snapshot.
C14_SnapshotOrdering ==
    (calls > 0 /\ call.ok) =>
        /\ previous_state = call.current
        /\ current_state = PositionalParse(call.input)

\* A second accepted input changed a rank of a state that was not the
\* initial one: the snapshot holds the ranks of the first input.
C14_Witness ==
    /\ calls = 2
    /\ call.ok
    /\ call.current # InitialState
    /\ previous_state = call.current
    /\ previous_state.ranks # current_state.ranks
    /\ outbox = <<>>

\* C15: the buffer lock is never held while a flushed item is processed
\* downstream, so a push of a newly completed input never has to wait for
\* the processing to end.
C15_IngestionNotBlocked ==
    /\ pb.pc = "processing" => buffer_lock = "free"
    /\ ~(pb.pc = "processing" /\ handler.pc = "push_wait")

\* C16: a process_input invocation begins only when none is in progress,
\* it is made by process_buffer with an item taken from the debounce
\* buffer, and its classification read the snapshot made by this same
\* invocation; whatever reaches the state, from /uin1 and /uin2 or from
\* /uin, was pushed into the buffer before.
C16_SingleWriter ==
    [][calls' # calls =>
          /\ outbox = <<>>
          /\ pb.pc = "sleep"
          /\ calls' = calls + 1
          /\ buffer # <<>>
          /\ \E i \in 1..Len(buffer) : call'.input = buffer[i]
          /\ previous_state' = current_state
          /\ call'.ok => call'.bypass =
                            CheckBypassRank(PositionalParse(call'.input),
                                            current_state)]_vars

\* An invocation made for a completed /uin1 + /uin2 pair is in progress
\* while a legacy /uin input waits to be pushed.
C16_Witness ==
    /\ pb.pc = "processing"
    /\ outbox # <<>>
    /\ processed = << PartA \o PartB >>
    /\ handler.pc = "push_wait"
    /\ handler.key = "legacy"

\* C17: two consecutive deliveries are at least buffer_time_ms apart.
C17_DeliverySpacing == spacing.gap >= buffer_time_ms

\* A second delivery came exactly buffer_time_ms after the first.
C17_Witness == delivery.n = 2 /\ spacing.gap = buffer_time_ms

\* C18: a flush that finds the buffer non-empty forwards one item, the one
\* pushed last, and leaves the buffer empty; nothing is forwarded from an
\* empty buffer, and nothing is forwarded in any other way.
C18_LastWriteWins ==
    [][(calls' # calls \/ delivery' # delivery \/ Len(buffer') < Len(buffer)) =>
          /\ buffer # <<>>
          /\ buffer' = <<>>
          /\ processed' = Append(processed, win.last)
          /\ win.last = emitted[Len(emitted)].hex
          /\ delivery'.n = delivery.n + 1]_vars

\* Two different items were pushed into one window; only the second was
\* forwarded and the buffer is empty.
C18_Witness ==
    /\ Len(emitted) = 2
    /\ emitted[1].hex # emitted[2].hex
    /\ delivery.pushes = 2
    /\ processed = << emitted[2].hex >>
    /\ buffer = <<>>

\* The item pushed last has been delivered, nothing is left in the buffer
\* and process_buffer waits for the next push.
LastPushDelivered ==
    /\ handler.pc = "recv"
    /\ buffer = <<>>
    /\ pb = WaitingTask
    /\ emitted # <<>> =>
          /\ processed # <<>>
          /\ processed[Len(processed)] = emitted[Len(emitted)].hex

\* C19: when pushes stop, the item pushed last is eventually delivered and
\* the buffer ends empty, whether the state model accepts the item or not.
C19_DebounceLiveness == Quiet ~> LastPushDelivered

\* Pushes stopped after a valid input and, last, the rejected input "01";
\* "01" was delivered and the buffer is empty.
C19_Witness ==
    /\ Quiet
    /\ LastPushDelivered
    /\ Len(emitted) = 2
    /\ emitted[2].hex = <<"0","1">>
    /\ ~call.ok

\* C20: an entry that has recorded both a /uin1 and a /uin2 fragment is
\* completed: once the handler is through, it is not left pending.
C20_AnyHalfLength ==
    \A s \in Senders :
        (handler.pc = "recv" /\ pending_inputs[s].present)
            => entry_flags[s] # {"/uin1", "/uin2"}

\* A frame that is a NUL-terminated address zero-padded to a multiple of 4
\* and nothing else.
AddressOnly(frame) ==
    /\ Len(frame) > 0
    /\ Len(frame) % 4 = 0
    /\ \E n \in 1..Len(frame) :
          /\ Len(frame) - n <= 4
          /\ \A k \in 1..Len(frame) : (frame[k] = 0) <=> (k >= n)

\* The bytes of an address-only frame before its first NUL.
AddressOf(frame) == SelectSeq(frame, LAMBDA b : b # 0)

\* C21: decoding an address-only frame is not an error: it gives the
\* address of the frame and an empty payload.
C21_AddressOnlyFrame ==
    (fn.op = "codec" /\ fn.stage = "received" /\ AddressOnly(fn.frame)) =>
        /\ ~fn.decoded.raised
        /\ fn.decoded.address = AddressOf(fn.frame)
        /\ fn.decoded.input_data = <<>>

RECURSIVE LastAcceptedState(_)
\* The state parsed from the last accepted input of a sequence of inputs,
\* the all-zero initial state when there is none.
LastAcceptedState(inputs) ==
    IF inputs = <<>> THEN InitialState
    ELSE IF IsAccepted(inputs[Len(inputs)])
         THEN PositionalParse(inputs[Len(inputs)])
         ELSE LastAcceptedState(SubSeq(inputs, 1, Len(inputs) - 1))

\* C23: when an accepted input is classified, previous_state is the state
\* parsed from the accepted input before it (the initial state when there
\* is none), whatever rejected inputs came in between, and the
\* classification is the one relative to that state.
C23_RelativeToLastAccepted ==
    (calls > 0 /\ call.ok) =>
        LET before == LastAcceptedState(SubSeq(processed, 1, Len(processed) - 1))
        IN  /\ previous_state = before
            /\ call.bypass = CheckBypassRank(PositionalParse(call.input), before)

\* C25: on well-formed inputs the two variants have sent, or have still to
\* send, the same messages in the same order, and the threaded variant's
\* current slots hold the values of the asyncio variant's current_state.
C25_VariantsAgree ==
    /\ sent \o outbox = t_sent \o message_queue
    /\ t_slots.sustain[1] = current_state.sustain
    /\ t_slots.densityFunction[1] = current_state.density_function
    /\ t_slots.keyCenter[1] = current_state.key_center
    /\ \A i \in 1..num_ranks : t_slots.ranks[i][1] = current_state.ranks[i]

\* Three inputs went through both variants, the last one changed rank 8,
\* and each variant has sent its six messages.
C25_Witness ==
    /\ calls = 3
    /\ Len(sent) = 6
    /\ Len(t_sent) = 6
    /\ current_state.ranks[num_ranks] # ZeroRank
    /\ previous_state.ranks[num_ranks] = ZeroRank
    /\ sent[1].data # sent[5].data

\* C22: when a time-out has found a sender's entry incomplete, the entry is
\* gone with the half it held: no pending entry of the sender holds that
\* half afterwards (so no later combined input is made of it), and a
\* fragment that finds no entry starts one that holds this fragment alone.
C22_NoStaleHalves ==
    /\ [](\A s \in Senders : expired[s] = {})
    /\ [][\A s \in Senders :
            (~pending_inputs[s].present /\ pending_inputs'[s].present) =>
                /\ Cardinality(entry_flags'[s]) = 1
                /\ HalvesOf(pending_inputs'[s]) \subseteq entry_flags'[s]]_vars

\* A sender sent a /uin1 half and then nothing for input_timeout_ms: the
\* time-out removed the entry, the half is gone and nothing was emitted.
C22_Witness ==
    \E s \in Senders :
        /\ pair[s].state = "open"
        /\ pair[s].a = PartA
        /\ pair[s].age = input_timeout_ms
        /\ timeouts[s] = 1
        /\ pending_inputs[s] = NoEntry
        /\ emitted = <<>>

\* C24: while the handler is suspended in the push of a completed pair, the
\* sender's entry stays in pending_inputs, complete, as the handler left
\* it, and the combined input has been emitted once, last; the entry is
\* deleted by the handler when it resumes.
C24_CompletedEntryKept ==
    /\ [](\A s \in Senders :
            (handler.pc = "push_wait" /\ handler.key = s) =>
                /\ pending_inputs[s].present
                /\ pending_inputs[s].is_complete
                /\ GetCombinedHex(pending_inputs[s]) = handler.hex
                /\ emitted[Len(emitted)] = [key |-> s, hex |-> handler.hex])
    /\ [][\A s \in Senders :
            (handler.pc = "push_wait" /\ handler.key = s) =>
                /\ Len(emitted') = Len(emitted)
                /\ handler'.pc = "recv" => ~pending_inputs'[s].present]_vars

\* The handler is suspended in the push of a completed pair and the
\* sender's time-out task has run meanwhile: the entry is still there.
C24_Witness ==
    \E s \in Senders :
        /\ handler.pc = "push_wait"
        /\ handler.key = s
        /\ timers[s] = <<>>
        /\ timeouts[s] = 0
        /\ pending_inputs[s].is_complete

====
